---------------------------- MODULE Spec2Model ----------------------------
(***************************************************************************)
(* color_conv: conversions between the Rgb, Hsl and Cmyk value types and   *)
(* the "#rrggbb" hex string.                                               *)
(*                                                                         *)
(* The conversions are written in the source with floating-point           *)
(* arithmetic (crate::Float in rgb.rs / hsl.rs, f64 in cmyk.rs).  A Float  *)
(* is modelled by the exact rational it approximates plus one bit `e`      *)
(* telling whether the float is known to be that rational exactly.  An     *)
(* operation on exact operands whose true result is a dyadic rational with *)
(* a small denominator is exact (IEEE-754 rounds correctly); every other   *)
(* result carries a rounding error of unknown sign.  That error is far     *)
(* smaller than the distance between two distinct values of the formulas   *)
(* below, so it matters in two places only: `round()` of a value that is   *)
(* mathematically a tie (k + 1/2) and the truncating cast of a value that  *)
(* is mathematically an integer.  There an inexact operand yields both     *)
(* neighbouring results, whichever the width of Float makes the build      *)
(* produce.  Every conversion therefore denotes a SET of possible results. *)
(***************************************************************************)
EXTENDS Integers, Sequences, FiniteSets

VARIABLES orig, recv, call, ret, depth

vars == <<orig, recv, call, ret, depth>>

-----------------------------------------------------------------------------
(* Bounds of the model: how finely the argument ranges are sampled and how *)
(* many conversions are chained on one constructed value.                  *)

RgbLevels == 8
HueLevels == 24
PctLevels == 4
CmykLevels == 4
MaxCalls == 2

(* Widths of the argument types (u8, u16). *)
U8Max == 255
U16Max == 65535

-----------------------------------------------------------------------------
(* Float arithmetic *)

RECURSIVE GCD(_, _)
GCD(a, b) == IF b = 0 THEN a ELSE GCD(b, a % b)

AbsInt(i) == IF i < 0 THEN -i ELSE i

RECURSIVE IsPow2(_)
IsPow2(d) == IF d = 1 THEN TRUE ELSE IF d % 2 = 1 THEN FALSE ELSE IsPow2(d \div 2)

NaN == [n |-> 0, d |-> 0, e |-> TRUE]
Inf(sign) == [n |-> sign, d |-> 0, e |-> TRUE]

IsNaN(a) == a.d = 0 /\ a.n = 0
IsFinite(a) == a.d > 0

(* The float for the rational n/d (d > 0), exact when `e` and representable. *)
Q(n, d, e) ==
    LET g == GCD(AbsInt(n), d)
    IN  [n |-> n \div g, d |-> d \div g, e |-> e /\ IsPow2(d \div g)]

(* `x as Float` of an integer *)
F(i) == [n |-> i, d |-> 1, e |-> TRUE]

Sign(a) == IF a.n > 0 THEN 1 ELSE IF a.n < 0 THEN -1 ELSE 0

Neg(a) == [a EXCEPT !.n = -a.n]

Add(a, b) ==
    IF IsNaN(a) \/ IsNaN(b) THEN NaN
    ELSE IF ~IsFinite(a) THEN (IF ~IsFinite(b) /\ b.n # a.n THEN NaN ELSE a)
    ELSE IF ~IsFinite(b) THEN b
    ELSE LET g == GCD(a.d, b.d)
         IN  Q(a.n * (b.d \div g) + b.n * (a.d \div g), (a.d \div g) * b.d,
               a.e /\ b.e)

Sub(a, b) == Add(a, Neg(b))

Mul(a, b) ==
    IF IsNaN(a) \/ IsNaN(b) THEN NaN
    ELSE IF ~IsFinite(a) \/ ~IsFinite(b)
         THEN (IF Sign(a) * Sign(b) = 0 THEN NaN ELSE Inf(Sign(a) * Sign(b)))
    ELSE LET g == GCD(AbsInt(a.n), b.d)
             h == GCD(AbsInt(b.n), a.d)
         IN  Q((a.n \div g) * (b.n \div h), (a.d \div h) * (b.d \div g),
               a.e /\ b.e)

Div(a, b) ==
    IF IsNaN(a) \/ IsNaN(b) THEN NaN
    ELSE IF ~IsFinite(a) THEN (IF ~IsFinite(b) THEN NaN
                               ELSE Inf(IF b.n < 0 THEN -a.n ELSE a.n))
    ELSE IF ~IsFinite(b) THEN F(0)
    ELSE IF b.n = 0 THEN (IF a.n = 0 THEN NaN ELSE Inf(Sign(a)))
    ELSE LET g == GCD(AbsInt(a.n), AbsInt(b.n))
             h == GCD(b.d, a.d)
         IN  Q((a.n \div g) * (b.d \div h) * Sign(b),
               (a.d \div h) * (AbsInt(b.n) \div g), a.e /\ b.e)

Abs(a) == [a EXCEPT !.n = AbsInt(a.n)]

(* Float::max: the other operand when one is NaN *)
Max(a, b) ==
    IF IsNaN(a) THEN b
    ELSE IF IsNaN(b) THEN a
    ELSE IF ~IsFinite(a) THEN (IF a.n > 0 THEN a ELSE b)
    ELSE IF ~IsFinite(b) THEN (IF b.n > 0 THEN b ELSE a)
    ELSE IF a.n * b.d >= b.n * a.d THEN a ELSE b

(* a == b on floats that were computed by the same operations *)
Eq(a, b) == IsFinite(a) /\ IsFinite(b) /\ a.n = b.n /\ a.d = b.d

(* a < b *)
Lt(a, b) == IsFinite(a) /\ IsFinite(b) /\ a.n * b.d < b.n * a.d

(* Integer part of |n|/d, towards zero, with the sign of n *)
TruncDiv(n, d) == IF n >= 0 THEN n \div d ELSE -((-n) \div d)

(* Rust's `a % b` on floats: the remainder has the sign of the dividend *)
Rem(a, b) ==
    IF ~IsFinite(a) \/ IsNaN(b) THEN NaN
    ELSE IF ~IsFinite(b) THEN a
    ELSE IF b.n = 0 THEN NaN
    ELSE LET num == a.n * b.d
             den == a.d * AbsInt(b.n)
             k == TruncDiv(num, den)
         IN  Q((num - k * den) * AbsInt(b.n), den * b.d, a.e /\ b.e)

(* f.round(): to the nearest integer, a tie away from zero.  An inexact    *)
(* operand that is mathematically a tie may lie on either side of it.      *)
Round(a) ==
    IF ~IsFinite(a) THEN {a}
    ELSE LET m == AbsInt(a.n)
             lo == m \div a.d
             s == IF a.n < 0 THEN -1 ELSE 1
             tie == 2 * (m - lo * a.d) = a.d
             up == 2 * (m - lo * a.d) >= a.d
         IN  IF tie /\ ~a.e THEN {F(s * lo), F(s * (lo + 1))}
             ELSE IF up THEN {F(s * (lo + 1))}
             ELSE {F(s * lo)}

(* Faulty variant of AsUnsigned: NaN is cast like +infinity. *)
AsUnsignedNaNMax(a, max) ==
    IF IsNaN(a) THEN {max}
    ELSE IF ~IsFinite(a) THEN {IF a.n > 0 THEN max ELSE 0}
    ELSE IF a.n <= 0 THEN {0}
    ELSE LET t == a.n \div a.d
             clamp(i) == IF i > max THEN max ELSE i
         IN  IF a.d = 1 /\ ~a.e THEN {clamp(t - 1), clamp(t)} ELSE {clamp(t)}

(* `f as uN` (saturating since Rust 1.45): NaN is 0, the fraction is       *)
(* dropped, the result is clamped to [0, max].  An inexact operand that is *)
(* mathematically an integer k may lie just below k.                       *)
AsUnsigned(a, max) ==
    IF IsNaN(a) THEN {0}
    ELSE IF ~IsFinite(a) THEN {IF a.n > 0 THEN max ELSE 0}
    ELSE IF a.n <= 0 THEN {0}
    ELSE LET t == a.n \div a.d
             clamp(i) == IF i > max THEN max ELSE i
         IN  IF a.d = 1 /\ ~a.e THEN {clamp(t - 1), clamp(t)} ELSE {clamp(t)}

AsU8(a) == AsUnsigned(a, U8Max)
AsU16(a) == AsUnsigned(a, U16Max)

RoundAsU8(a) == UNION {AsU8(r) : r \in Round(a)}
RoundAsU16(a) == UNION {AsU16(r) : r \in Round(a)}


-----------------------------------------------------------------------------
(* Values.  Ok(v) of a constructor is represented by v itself. *)

None == [type |-> "None"]
Err(kind) == [type |-> "Err", error |-> kind]
Panic(msg) == [type |-> "Panic", msg |-> msg]
Str(chars) == [type |-> "String", chars |-> chars]

RgbNew(red, green, blue) ==
    [type |-> "Rgb", red |-> red, green |-> green, blue |-> blue]

HslNewUnchecked(hue, saturation, lightness) ==
    [type |-> "Hsl", hue |-> hue, saturation |-> saturation,
     lightness |-> lightness]

(* Faulty variant of HslNew: the degree check comes first. *)
HslNewDegreeFirst(hue, saturation, lightness) ==
    IF hue > 360 THEN Err("DegreeOverflow")
    ELSE IF ~(saturation <= 100 /\ lightness <= 100)
    THEN Err("PercentageOverflow")
    ELSE HslNewUnchecked(hue, saturation, lightness)

HslNew(hue, saturation, lightness) ==
    IF ~(saturation <= 100 /\ lightness <= 100) THEN Err("PercentageOverflow")
    ELSE IF hue > 360 THEN Err("DegreeOverflow")
    ELSE HslNewUnchecked(hue, saturation, lightness)

CmykNewUnchecked(cyan, magenta, yellow, key) ==
    [type |-> "Cmyk", cyan |-> cyan, magenta |-> magenta, yellow |-> yellow,
     key |-> key]

CmykNew(cyan, magenta, yellow, key) ==
    IF ~(\A val \in {cyan, magenta, yellow, key} : val <= 100)
    THEN Err("PercentageOverflow")
    ELSE CmykNewUnchecked(cyan, magenta, yellow, key)

(* Chained calls a.f().g(): g is applied to what f returned, and a panic   *)
(* of f unwinds through the caller.                                        *)
Panics(S) == {v \in S : v.type = "Panic"}
Results(S) == {v \in S : v.type # "Panic"}

MaxOf(S) == CHOOSE x \in S : \A y \in S : y <= x
MinOf(S) == CHOOSE x \in S : \A y \in S : x <= y

-----------------------------------------------------------------------------
(* impl Rgb *)

(* Rgb::_to_cmyk's key *)
RgbKey(self) ==
    LET r_prime == Div(F(self.red), F(255))
        g_prime == Div(F(self.green), F(255))
        b_prime == Div(F(self.blue), F(255))
    IN  Sub(F(1), Max(Max(Max(NaN, r_prime), g_prime), b_prime))

(* the key channel: (key * 100.) as u8 *)
KeyAsU8(key) == AsU8(Mul(key, F(100)))

(* Faulty variant of CmykApply: the key is not subtracted from the numerator. *)
CmykApplyNoKey(v, key) ==
    RoundAsU8(Mul(Div(Sub(F(1), v), Sub(F(1), key)), F(100)))

(* the closure `apply` of Rgb::_to_cmyk *)
CmykApply(v, key) ==
    RoundAsU8(Mul(Div(Sub(Sub(F(1), v), key), Sub(F(1), key)), F(100)))

RgbToCmyk(self) ==
    LET r_prime == Div(F(self.red), F(255))
        g_prime == Div(F(self.green), F(255))
        b_prime == Div(F(self.blue), F(255))
        key == RgbKey(self)
    IN  {CmykNewUnchecked(c, m, y, k) :
            c \in CmykApply(r_prime, key), m \in CmykApply(g_prime, key),
            y \in CmykApply(b_prime, key), k \in KeyAsU8(key)}

(* the hue before rounding, or a panic when no arm matches *)
RgbHue(r_prime, g_prime, b_prime, c_max, delta) ==
    IF Eq(c_max, r_prime)
    THEN Mul(F(60), Rem(Div(Sub(g_prime, b_prime), delta), F(6)))
    ELSE IF Eq(c_max, g_prime)
    THEN Mul(F(60), Add(Div(Sub(b_prime, r_prime), delta), F(2)))
    ELSE IF Eq(c_max, b_prime)
    THEN Mul(F(60), Add(Div(Sub(r_prime, g_prime), delta), F(4)))
    ELSE Panic("Invalid hue calculation!")

(* the saturation before rounding *)
RgbSaturation(delta, lightness) ==
    Mul(Div(delta, Sub(F(1), Sub(Mul(F(2), lightness), F(1)))), F(100))

(* Float::EPSILON: 2^-23 for f32 (2^-52 for f64). *)
Epsilon == Q(1, 8388608, TRUE)

(* delta.abs() < Float::EPSILON.  delta is the difference of two quotients *)
(* i/255 computed the same way: it is 0 or at least 1/255, for either      *)
(* width of Float.                                                         *)
Achromatic(delta) == Lt(Abs(delta), Epsilon)

RgbToHsl(self) ==
    LET r_prime == Div(F(self.red), F(255))
        g_prime == Div(F(self.green), F(255))
        b_prime == Div(F(self.blue), F(255))
        c_max == Div(F(MaxOf({self.red, self.green, self.blue})), F(255))
        c_min == Div(F(MinOf({self.red, self.green, self.blue})), F(255))
        delta == Sub(c_max, c_min)
        hue == RgbHue(r_prime, g_prime, b_prime, c_max, delta)
        lightness == Div(Add(c_max, c_min), F(2))
        hues == IF Achromatic(delta) THEN {0} ELSE RoundAsU16(hue)
        saturations == IF Achromatic(delta) THEN {0}
                       ELSE RoundAsU8(RgbSaturation(delta, lightness))
    IN  IF ~Achromatic(delta) /\ "type" \in DOMAIN hue
        THEN {hue}
        ELSE {HslNewUnchecked(h, s, l) :
                h \in hues, s \in saturations,
                l \in RoundAsU8(Mul(lightness, F(100)))}

HexDigit == <<"0", "1", "2", "3", "4", "5", "6", "7", "8", "9",
              "a", "b", "c", "d", "e", "f">>

(* {:x} *)
RECURSIVE LowerHex(_)
LowerHex(v) ==
    IF v < 16 THEN <<HexDigit[v + 1]>>
    ELSE LowerHex(v \div 16) \o <<HexDigit[(v % 16) + 1]>>

(* Faulty variant of PadLeft: no padding. *)
PadLeftNone(s, width, fill) == s

(* {:0>2}: right-aligned in a field of `width` filled with `fill` *)
RECURSIVE PadLeft(_, _, _)
PadLeft(s, width, fill) ==
    IF Len(s) >= width THEN s ELSE PadLeft(<<fill>> \o s, width, fill)

RgbToHexString(self) ==
    {Str(<<"#">> \o PadLeft(LowerHex(self.red), 2, "0")
               \o PadLeft(LowerHex(self.green), 2, "0")
               \o PadLeft(LowerHex(self.blue), 2, "0"))}

RgbToRgb(self) == {self}

-----------------------------------------------------------------------------
(* impl Hsl *)

Primes(r_prime, g_prime, b_prime) ==
    [type |-> "Primes", r_prime |-> r_prime, g_prime |-> g_prime,
     b_prime |-> b_prime]

(* exclusive_range_workaround!: the arm of the half-open range holding hue *)
HueSector(self, c, x) ==
    LET h == self.hue
    IN  IF h >= 0 /\ h < 60 THEN Primes(c, x, F(0))
        ELSE IF h >= 60 /\ h < 120 THEN Primes(x, c, F(0))
        ELSE IF h >= 120 /\ h < 180 THEN Primes(F(0), c, x)
        ELSE IF h >= 180 /\ h < 240 THEN Primes(F(0), x, c)
        ELSE IF h >= 240 /\ h < 300 THEN Primes(x, F(0), c)
        ELSE IF h >= 300 /\ h < 360 THEN Primes(c, F(0), x)
        ELSE Panic("Unexpected hue, larger than 360!")

(* the closure `apply` of Hsl::to_rgb *)
HslApply(v, m) == RoundAsU8(Mul(Add(v, m), F(255)))

HslToRgb(self) ==
    LET l == Div(F(self.lightness), F(100))
        c == Mul(Sub(F(1), Abs(Sub(Mul(F(2), l), F(1)))),
                 Div(F(self.saturation), F(100)))
        x == Mul(c, Sub(F(1), Abs(Sub(Rem(Div(F(self.hue), F(60)), F(2)),
                                      F(1)))))
        m == Sub(l, Div(c, F(2)))
        primes == HueSector(self, c, x)
    IN  IF primes.type = "Panic"
        THEN {primes}
        ELSE {RgbNew(red, green, blue) :
                red \in HslApply(primes.r_prime, m),
                green \in HslApply(primes.g_prime, m),
                blue \in HslApply(primes.b_prime, m)}

HslToCmyk(self) ==
    LET rgb == HslToRgb(self)
    IN  Panics(rgb) \cup UNION {RgbToCmyk(v) : v \in Results(rgb)}

HslToHexString(self) ==
    LET rgb == HslToRgb(self)
    IN  Panics(rgb) \cup UNION {RgbToHexString(v) : v \in Results(rgb)}

HslToHsl(self) == {self}

-----------------------------------------------------------------------------
(* impl Cmyk *)

(* Faulty variant of RgbApply: the key does not darken the channel. *)
RgbApplyNoKey(v, key) ==
    RoundAsU8(Mul(F(255), Sub(F(1), Div(F(v), F(100)))))

(* the closure `apply` of Cmyk::to_rgb (f64) *)
RgbApply(v, key) ==
    RoundAsU8(Mul(Mul(F(255), Sub(F(1), Div(F(v), F(100)))),
                  Sub(F(1), Div(F(key), F(100)))))

CmykToRgb(self) ==
    {RgbNew(red, green, blue) :
        red \in RgbApply(self.cyan, self.key),
        green \in RgbApply(self.magenta, self.key),
        blue \in RgbApply(self.yellow, self.key)}

CmykToCmyk(self) == {self}
CmykToHexString(self) ==
    LET rgb == CmykToRgb(self)
    IN  Panics(rgb) \cup UNION {RgbToHexString(v) : v \in Results(rgb)}

CmykToHsl(self) ==
    LET rgb == CmykToRgb(self)
    IN  Panics(rgb) \cup UNION {RgbToHsl(v) : v \in Results(rgb)}


-----------------------------------------------------------------------------
(* The arguments the constructors are called with. *)

Grid(max, levels) == {(max * i) \div levels : i \in 0..levels}

RgbSamples ==
    {<<30, 50, 60>>, <<204, 153, 102>>, <<107, 77, 61>>, <<0, 0, 1>>,
     <<255, 0, 128>>, <<100, 100, 100>>, <<0, 255, 255>>, <<8, 16, 240>>}

RgbArgs ==
    LET ch == Grid(U8Max, RgbLevels) IN (ch \X ch \X ch) \cup RgbSamples

HslSamples ==
    {<<30, 50, 60>>, <<361, 101, 101>>, <<180, 100, 50>>, <<0, 100, 25>>,
     <<330, 100, 50>>, <<17, 1, 50>>, <<359, 100, 50>>}

HslArgs ==
    LET hue == Grid(360, HueLevels) \cup {361, U16Max}
        pct == Grid(100, PctLevels) \cup {101, U8Max}
    IN  (hue \X pct \X pct) \cup HslSamples

CmykSamples ==
    {<<30, 50, 60, 40>>, <<255, 255, 255, 255>>, <<0, 50, 0, 99>>,
     <<50, 17, 0, 76>>, <<0, 40, 80, 78>>, <<0, 0, 0, 20>>}

CmykArgs ==
    LET pct == Grid(100, CmykLevels) \cup {U8Max}
    IN  (pct \X pct \X pct \X pct) \cup CmykSamples

-----------------------------------------------------------------------------
(* The caller: it constructs one value and chains conversions on it.       *)
(*   orig   the value constructed (None before, and when construction      *)
(*          failed)                                                        *)
(*   recv   the receiver of the last conversion                            *)
(*   call   the last call: its function and, for a constructor, arguments  *)
(*   ret    what the last call returned (or the panic it ended in)         *)
(*   depth  the number of conversions called since construction            *)

Init ==
    /\ orig = None
    /\ recv = None
    /\ call = [fn |-> "none", args |-> <<>>]
    /\ ret = None
    /\ depth = 0

Built(fn, args, value) ==
    /\ call' = [fn |-> fn, args |-> args]
    /\ ret' = value
    /\ orig' = IF value.type = "Err" THEN None ELSE value
    /\ recv' = None
    /\ depth' = 0

Returned(fn, value) ==
    /\ ret' = value
    /\ recv' = ret
    /\ call' = [fn |-> fn, args |-> <<>>]
    /\ depth' = depth + 1
    /\ UNCHANGED orig

CallRgbNew ==
    /\ call.fn = "none"
    /\ \E a \in RgbArgs : Built("Rgb::new", a, RgbNew(a[1], a[2], a[3]))

CallHslNew ==
    /\ call.fn = "none"
    /\ \E a \in HslArgs : Built("Hsl::new", a, HslNew(a[1], a[2], a[3]))

CallHslNewUnchecked ==
    /\ call.fn = "none"
    /\ \E a \in HslArgs :
        Built("Hsl::new_unchecked", a, HslNewUnchecked(a[1], a[2], a[3]))

CallCmykNew ==
    /\ call.fn = "none"
    /\ \E a \in CmykArgs :
        Built("Cmyk::new", a, CmykNew(a[1], a[2], a[3], a[4]))

CallCmykNewUnchecked ==
    /\ call.fn = "none"
    /\ \E a \in CmykArgs :
        Built("Cmyk::new_unchecked", a,
              CmykNewUnchecked(a[1], a[2], a[3], a[4]))

CallRgbToRgb ==
    /\ ret.type = "Rgb"
    /\ depth < MaxCalls
    /\ \E v \in RgbToRgb(ret) : Returned("Rgb::to_rgb", v)

CallRgbToHexString ==
    /\ ret.type = "Rgb"
    /\ depth < MaxCalls
    /\ \E v \in RgbToHexString(ret) : Returned("Rgb::to_hex_string", v)

CallRgbToCmyk ==
    /\ ret.type = "Rgb"
    /\ depth < MaxCalls
    /\ \E v \in RgbToCmyk(ret) : Returned("Rgb::to_cmyk", v)

CallRgbToHsl ==
    /\ ret.type = "Rgb"
    /\ depth < MaxCalls
    /\ \E v \in RgbToHsl(ret) : Returned("Rgb::to_hsl", v)

CallHslToRgb ==
    /\ ret.type = "Hsl"
    /\ depth < MaxCalls
    /\ \E v \in HslToRgb(ret) : Returned("Hsl::to_rgb", v)

CallHslToCmyk ==
    /\ ret.type = "Hsl"
    /\ depth < MaxCalls
    /\ \E v \in HslToCmyk(ret) : Returned("Hsl::to_cmyk", v)

CallHslToHexString ==
    /\ ret.type = "Hsl"
    /\ depth < MaxCalls
    /\ \E v \in HslToHexString(ret) : Returned("Hsl::to_hex_string", v)

CallHslToHsl ==
    /\ ret.type = "Hsl"
    /\ depth < MaxCalls
    /\ \E v \in HslToHsl(ret) : Returned("Hsl::to_hsl", v)

CallCmykToRgb ==
    /\ ret.type = "Cmyk"
    /\ depth < MaxCalls
    /\ \E v \in CmykToRgb(ret) : Returned("Cmyk::to_rgb", v)

CallCmykToCmyk ==
    /\ ret.type = "Cmyk"
    /\ depth < MaxCalls
    /\ \E v \in CmykToCmyk(ret) : Returned("Cmyk::to_cmyk", v)

CallCmykToHexString ==
    /\ ret.type = "Cmyk"
    /\ depth < MaxCalls
    /\ \E v \in CmykToHexString(ret) : Returned("Cmyk::to_hex_string", v)

CallCmykToHsl ==
    /\ ret.type = "Cmyk"
    /\ depth < MaxCalls
    /\ \E v \in CmykToHsl(ret) : Returned("Cmyk::to_hsl", v)

Next ==
    \/ CallRgbNew
    \/ CallHslNew
    \/ CallHslNewUnchecked
    \/ CallCmykNew
    \/ CallCmykNewUnchecked
    \/ CallRgbToRgb
    \/ CallRgbToHexString
    \/ CallRgbToCmyk
    \/ CallRgbToHsl
    \/ CallHslToRgb
    \/ CallHslToCmyk
    \/ CallHslToHexString
    \/ CallHslToHsl
    \/ CallCmykToRgb
    \/ CallCmykToCmyk
    \/ CallCmykToHexString
    \/ CallCmykToHsl

Spec == Init /\ [][Next]_vars

-----------------------------------------------------------------------------
(* Vocabulary of the properties *)

ValidHsl(v) ==
    v.type = "Hsl" /\ v.hue <= 360 /\ v.saturation <= 100 /\ v.lightness <= 100

ValidCmyk(v) ==
    /\ v.type = "Cmyk"
    /\ v.cyan <= 100 /\ v.magenta <= 100 /\ v.yellow <= 100 /\ v.key <= 100

Within1(a, b) == a - b <= 1 /\ b - a <= 1

Channels(rgb) == {rgb.red, rgb.green, rgb.blue}

IsAchromatic(rgb) == MaxOf(Channels(rgb)) = MinOf(Channels(rgb))

(* a - b * floor(a / b): the mathematical modulus, in [0, b) for b > 0 *)
MathMod(a, b) ==
    LET q == Div(a, b)
        fl == IF q.n >= 0 THEN q.n \div q.d ELSE -((-q.n + q.d - 1) \div q.d)
    IN  Sub(a, Mul(b, F(fl)))

(* hsl.to_rgb().to_hsl() has just returned for the constructed value *)
HslRoundTrip ==
    /\ depth = 2 /\ orig.type = "Hsl"
    /\ recv.type = "Rgb" /\ call.fn = "Rgb::to_hsl"

(* cmyk.to_rgb().to_cmyk() has just returned for the constructed value *)
CmykRoundTrip ==
    /\ depth = 2 /\ orig.type = "Cmyk"
    /\ recv.type = "Rgb" /\ call.fn = "Rgb::to_cmyk"

-----------------------------------------------------------------------------
(* C1: for every HSL value the validating constructor accepts, Hsl::to_rgb *)
(* returns an Rgb without panicking, and for hue = 360 it returns what it  *)
(* returns for hue = 0 with the same saturation and lightness.             *)
C1_ToRgbTotalOnValidHsl ==
    (call.fn = "Hsl::to_rgb" /\ ValidHsl(recv)) =>
        /\ ret.type = "Rgb"
        /\ recv.hue = 360 => ret \in HslToRgb([recv EXCEPT !.hue = 0])

-----------------------------------------------------------------------------
(* the saturation the formula with the absolute value gives *)
C2_ClaimedSaturation(rgb) ==
    LET delta == Div(F(MaxOf(Channels(rgb)) - MinOf(Channels(rgb))), F(255))
        L == Div(F(MaxOf(Channels(rgb)) + MinOf(Channels(rgb))), F(2 * 255))
    IN  IF IsAchromatic(rgb) THEN {0}
        ELSE RoundAsU8(Mul(Div(delta,
                               Sub(F(1), Abs(Sub(Mul(F(2), L), F(1))))),
                           F(100)))

(* C2: Rgb::to_hsl returns saturation round(delta / (1 - |2L - 1|) * 100)  *)
(* with delta = (max - min)/255 and L = (max + min)/(2 * 255) for every    *)
(* non-achromatic input, above and below 50% lightness, and 0 for an       *)
(* achromatic one.                                                         *)
C2_SaturationFormula ==
    call.fn = "Rgb::to_hsl" =>
        ret.type = "Hsl" /\ ret.saturation \in C2_ClaimedSaturation(recv)

-----------------------------------------------------------------------------
(* the hue the piecewise formula gives with the mathematical modulus *)
C3_ClaimedHue(rgb) ==
    LET r == Div(F(rgb.red), F(255))
        g == Div(F(rgb.green), F(255))
        b == Div(F(rgb.blue), F(255))
        mx == MaxOf(Channels(rgb))
        delta == Div(F(mx - MinOf(Channels(rgb))), F(255))
    IN  IF IsAchromatic(rgb) THEN {0}
        ELSE IF mx = rgb.red
        THEN RoundAsU16(Mul(F(60), MathMod(Div(Sub(g, b), delta), F(6))))
        ELSE IF mx = rgb.green
        THEN RoundAsU16(Mul(F(60), Add(Div(Sub(b, r), delta), F(2))))
        ELSE RoundAsU16(Mul(F(60), Add(Div(Sub(r, g), delta), F(4))))

(* C3: Rgb::to_hsl returns the rounded piecewise hue chosen by the maximal *)
(* channel, the red arm using the mathematical modulus with value in       *)
(* [0, 6): a red maximum with green below blue gives a hue in [300, 360],  *)
(* not 0.  An achromatic input gives hue 0.                                *)
C3_HueFormula ==
    call.fn = "Rgb::to_hsl" =>
        /\ ret.type = "Hsl"
        /\ ret.hue \in C3_ClaimedHue(recv)
        /\ (/\ recv.red = MaxOf(Channels(recv))
            /\ recv.green < recv.blue) => (300 <= ret.hue /\ ret.hue <= 360)

-----------------------------------------------------------------------------
(* round(k * 100) *)
C4_ClaimedKey(rgb) ==
    RoundAsU8(Mul(Sub(F(1), Div(F(MaxOf(Channels(rgb))), F(255))), F(100)))

(* C4: the key channel Rgb::to_cmyk returns is round(k * 100) with         *)
(* k = 1 - max(r, g, b)/255, rounded to the nearest integer and not        *)
(* truncated.                                                              *)
C4_KeyIsRounded ==
    call.fn = "Rgb::to_cmyk" =>
        ret.type = "Cmyk" /\ ret.key \in C4_ClaimedKey(recv)

-----------------------------------------------------------------------------
(* C5: Hsl::new returns PercentageOverflow exactly when saturation or      *)
(* lightness exceeds 100 (whatever the hue), DegreeOverflow exactly when   *)
(* both are at most 100 and hue exceeds 360, and otherwise Ok with the     *)
(* fields equal to the arguments; Cmyk::new returns PercentageOverflow     *)
(* exactly when some argument exceeds 100 and otherwise Ok with the fields *)
(* equal to the arguments.                                                 *)
C5_ConstructorsDecide ==
    /\ call.fn = "Hsl::new" =>
        LET h == call.args[1]
            s == call.args[2]
            l == call.args[3]
        IN  /\ (ret = Err("PercentageOverflow")) <=> (s > 100 \/ l > 100)
            /\ (ret = Err("DegreeOverflow")) <=>
                    (s <= 100 /\ l <= 100 /\ h > 360)
            /\ (s <= 100 /\ l <= 100 /\ h <= 360) =>
                    /\ ret.type = "Hsl"
                    /\ ret.hue = h /\ ret.saturation = s /\ ret.lightness = l
    /\ call.fn = "Cmyk::new" =>
        LET over == \E i \in 1..4 : call.args[i] > 100
        IN  /\ (ret = Err("PercentageOverflow")) <=> over
            /\ ~over =>
                    /\ ret.type = "Cmyk"
                    /\ ret.cyan = call.args[1] /\ ret.magenta = call.args[2]
                    /\ ret.yellow = call.args[3] /\ ret.key = call.args[4]

(* Hsl::new(361, 101, 101) has returned the percentage error *)
C5_Witness ==
    /\ call.fn = "Hsl::new" /\ call.args = <<361, 101, 101>>
    /\ ret = Err("PercentageOverflow")

-----------------------------------------------------------------------------
(* C6: Rgb(0, 0, 0).to_cmyk(), where the channel formula is 0/0, returns   *)
(* cyan = magenta = yellow = 0 and key = 100 without faulting.             *)
C6_BlackToCmyk ==
    (call.fn = "Rgb::to_cmyk" /\ recv = RgbNew(0, 0, 0)) =>
        ret = CmykNewUnchecked(0, 0, 0, 100)

(* Rgb(0, 0, 0).to_cmyk() has returned *)
C6_Witness ==
    call.fn = "Rgb::to_cmyk" /\ recv = RgbNew(0, 0, 0) /\ ret.type = "Cmyk"

-----------------------------------------------------------------------------
(* reading a "#rrggbb" string back *)
C9_LowerDigits ==
    <<"0", "1", "2", "3", "4", "5", "6", "7", "8", "9",
      "a", "b", "c", "d", "e", "f">>

C9_IsDigit(ch) == \E i \in 1..16 : C9_LowerDigits[i] = ch

C9_Value(ch) == (CHOOSE i \in 1..16 : C9_LowerDigits[i] = ch) - 1

C9_Decodes(chars, rgb) ==
    /\ Len(chars) = 7
    /\ chars[1] = "#"
    /\ \A i \in 2..7 : C9_IsDigit(chars[i])
    /\ 16 * C9_Value(chars[2]) + C9_Value(chars[3]) = rgb.red
    /\ 16 * C9_Value(chars[4]) + C9_Value(chars[5]) = rgb.green
    /\ 16 * C9_Value(chars[6]) + C9_Value(chars[7]) = rgb.blue

(* C9: Rgb::to_hex_string returns exactly 7 characters, '#' and then red,  *)
(* green and blue as two lowercase hexadecimal digits each, zero-padded,   *)
(* so the channels are recovered from the string; the string Hsl and Cmyk  *)
(* return is the one of their to_rgb().                                    *)
C9_HexString ==
    /\ call.fn = "Rgb::to_hex_string" =>
        ret.type = "String" /\ C9_Decodes(ret.chars, recv)
    /\ (call.fn = "Hsl::to_hex_string" /\ ret.type # "Panic") =>
        /\ ret.type = "String"
        /\ \E rgb \in HslToRgb(recv) : C9_Decodes(ret.chars, rgb)
    /\ call.fn = "Cmyk::to_hex_string" =>
        /\ ret.type = "String"
        /\ \E rgb \in CmykToRgb(recv) : C9_Decodes(ret.chars, rgb)

(* Rgb(8, 16, 240).to_hex_string() has returned "#0810f0" *)
C9_Witness ==
    /\ call.fn = "Rgb::to_hex_string" /\ recv = RgbNew(8, 16, 240)
    /\ ret = Str(<<"#", "0", "8", "1", "0", "f", "0">>)

-----------------------------------------------------------------------------
(* C10: what Rgb::to_cmyk and Rgb::to_hsl return satisfies the bounds of   *)
(* its type: cyan, magenta, yellow, key <= 100; hue <= 360, saturation and *)
(* lightness <= 100; the validating constructor accepts the fields.        *)
C10_ConversionsStayInRange ==
    /\ call.fn = "Rgb::to_cmyk" =>
        /\ ret.type = "Cmyk"
        /\ ret.cyan <= 100 /\ ret.magenta <= 100
        /\ ret.yellow <= 100 /\ ret.key <= 100
        /\ CmykNew(ret.cyan, ret.magenta, ret.yellow, ret.key) = ret
    /\ call.fn = "Rgb::to_hsl" =>
        /\ ret.type = "Hsl"
        /\ ret.hue <= 360 /\ ret.saturation <= 100 /\ ret.lightness <= 100
        /\ HslNew(ret.hue, ret.saturation, ret.lightness) = ret

(* Rgb(0, 255, 255).to_hsl() has returned Hsl(180, 100, 50) *)
C10_Witness ==
    /\ call.fn = "Rgb::to_hsl" /\ recv = RgbNew(0, 255, 255)
    /\ ret = HslNewUnchecked(180, 100, 50)

-----------------------------------------------------------------------------
(* C7: for every valid HSL value whose RGB image is not achromatic,        *)
(* hsl.to_rgb().to_hsl() returns a hue within 1 degree of the input hue    *)
(* and saturation and lightness within 1 percentage point of the input;    *)
(* when the RGB image is achromatic the returned hue is 0.                 *)
C7_HslRoundTripWithin1 ==
    (HslRoundTrip /\ ValidHsl(orig)) =>
        /\ ret.type = "Hsl"
        /\ IF IsAchromatic(recv) THEN ret.hue = 0
           ELSE /\ Within1(ret.hue, orig.hue)
                /\ Within1(ret.saturation, orig.saturation)
                /\ Within1(ret.lightness, orig.lightness)

-----------------------------------------------------------------------------
(* C8: for every valid CMYK value with key # 100, cmyk.to_rgb().to_cmyk()  *)
(* returns cyan, magenta, yellow and key each within 1 of the input; when  *)
(* key = 100 the result has cyan = magenta = yellow = 0.                   *)
C8_CmykRoundTripWithin1 ==
    (CmykRoundTrip /\ ValidCmyk(orig)) =>
        /\ ret.type = "Cmyk"
        /\ orig.key # 100 =>
            /\ Within1(ret.cyan, orig.cyan)
            /\ Within1(ret.magenta, orig.magenta)
            /\ Within1(ret.yellow, orig.yellow)
            /\ Within1(ret.key, orig.key)
        /\ orig.key = 100 =>
            ret.cyan = 0 /\ ret.magenta = 0 /\ ret.yellow = 0

(* C8, amended: for every valid CMYK value in which at least one of cyan,  *)
(* magenta, yellow is 0, cmyk.to_rgb().to_cmyk() returns a key within 1 of *)
(* the input key, and, when the input key is at most 78, cyan, magenta and *)
(* yellow within 1 of the input too; when key = 100 the result is          *)
(* cyan = magenta = yellow = 0 with key = 100.                             *)
C8_CmykRoundTripAmended ==
    (CmykRoundTrip /\ ValidCmyk(orig)) =>
        /\ ret.type = "Cmyk"
        /\ MinOf({orig.cyan, orig.magenta, orig.yellow}) = 0 =>
            /\ Within1(ret.key, orig.key)
            /\ orig.key <= 78 =>
                /\ Within1(ret.cyan, orig.cyan)
                /\ Within1(ret.magenta, orig.magenta)
                /\ Within1(ret.yellow, orig.yellow)
        /\ orig.key = 100 =>
            ret.cyan = 0 /\ ret.magenta = 0 /\ ret.yellow = 0 /\ ret.key = 100

(* Cmyk(0, 40, 80, 78).to_rgb().to_cmyk() has returned *)
C8_Witness ==
    /\ CmykRoundTrip /\ orig = CmykNewUnchecked(0, 40, 80, 78)
    /\ ret.type = "Cmyk" /\ ret.magenta # 0 /\ ret.yellow # 0

=============================================================================
